---- MODULE Spec2Model ----
(***************************************************************************)
(* Concurrent robot-motion control of the xArm apps.                       *)
(*                                                                         *)
(* Part I  models XArmController (app/xarm_controller_lib.py): the         *)
(*         session record ArmState, the RLock, the stop Event, the         *)
(*         bounce-loop threads, the callers of its public methods and the  *)
(*         computation of the bounce endpoints.                            *)
(* Part II models XArmGradioController (app/app_xarm_memoryloop.py): the   *)
(*         AppState record, the playback-loop threads, its commands and    *)
(*         the report callback that detects motion and records.            *)
(*                                                                         *)
(* A public method is a sequence of steps; a step is atomic where the code *)
(* holds _lock or where nothing it reads can be written by another thread. *)
(* Hardware calls return "ok" (code 0), "fail" (non-zero code) or "raise". *)
(***************************************************************************)
EXTENDS Integers, Sequences, FiniteSets, TLC

(***************************************************************************)
(* Bounds.                                                                 *)
(***************************************************************************)
\* thread objects that can exist at once (alive or still referenced)
MaxThreads == 2
\* playback-loop thread objects that can exist at once
MaxPlayThreads == 2
\* stop+save calls counted for one recording
MaxSaves == 2

Threads == 1..MaxThreads
\* the threads that call the public methods (Gradio runs handlers on a pool)
UI == {"u1", "u2"}

None == "None"
Outcome == {"ok", "fail", "raise"}

(***************************************************************************)
(* Inputs.                                                                 *)
(***************************************************************************)
DefaultIp == "192.168.1.221"
\* addresses typed in the UI: empty, blank, and one with surrounding blanks
Addresses == {"", " ", " 10.0.0.2 "}
\* str.strip()
Strip(s) == CASE s = " " -> ""
              [] s = " 10.0.0.2 " -> "10.0.0.2"
              [] OTHER -> s
\* what get_position can deliver: two 6-component poses and a malformed one
Poses == {"poseA", "poseB", "short"}
Len6(p) == p \in {"poseA", "poseB"}
\* speed_percent arguments of play_point_to_point
Speeds == {150}
Max(a, b) == IF a >= b THEN a ELSE b
Min(a, b) == IF a <= b THEN a ELSE b
ClampPct(x) == Max(0, Min(100, x))

\* The environment of a run: the threads that issue commands, the poses
\* get_position delivers and the addresses typed in.
\* What get_tcp_maxlin_vel / get_tcp_maxlin_acc give at connect: the method is
\* absent (hasattr is false), it returns a non-zero code, it raises, it returns
\* code 0 with None, or it returns code 0 with a value (mm/s, mm/s^2).
NoLimit == [kind |-> "absent", val |-> 0]
VelReplies == {NoLimit, [kind |-> "fail", val |-> 300], [kind |-> "raise", val |-> 0],
               [kind |-> "none", val |-> 0], [kind |-> "value", val |-> 300]}
AccReplies == {NoLimit, [kind |-> "fail", val |-> 1500], [kind |-> "raise", val |-> 0],
               [kind |-> "none", val |-> 0], [kind |-> "value", val |-> 1500]}

EnvSeq == [callers |-> {"u1"}, poses |-> Poses, addresses |-> Addresses,
           vel_replies |-> {NoLimit}, acc_replies |-> {NoLimit}]
EnvRace == [callers |-> UI, poses |-> {"poseA"}, addresses |-> {""},
            vel_replies |-> {NoLimit}, acc_replies |-> {NoLimit}]
\* one caller on a robot that answers the limit queries in every way
EnvLimits == [callers |-> {"u1"}, poses |-> {"poseA"}, addresses |-> {""},
              vel_replies |-> VelReplies, acc_replies |-> AccReplies]
\* no caller of XArmController: the process runs XArmGradioController alone
EnvGradio == [callers |-> {}, poses |-> {}, addresses |-> {},
              vel_replies |-> {}, acc_replies |-> {}]

VARIABLES
    env,            \* the environment of the run (never changes)
    arm,            \* XArmController._arm: None or "XArmAPI"
    state,          \* XArmController.state (ArmState)
    lock,           \* XArmController._lock: None or the UI thread holding it
    stop_event,     \* XArmController._stop_event.is_set()
    motion_thread,  \* XArmController._motion_thread: 0 (None) or a thread id
    thr,            \* bounce-loop threads: "none" (not alive), "start", "poll", "move"
    ui,             \* callers: [pc, op, thread, ret]
    hw,             \* the robot: [link, mode]
    p2p,            \* the endpoint computation of one play: [stage, amplitude,
                    \* axis, center, amp_mm, p_low, p_high]
    g_arm,          \* XArmGradioController.arm
    g_state,        \* XArmGradioController.state (AppState)
    g_play_thread,  \* XArmGradioController._play_thread: 0 (None) or a thread id
    g_stop_play_evt,\* XArmGradioController._stop_play_evt.is_set()
    g_cb_registered,\* XArmGradioController._cb_registered
    g_thr,          \* playback-loop threads: [st, double_speed]
    g_cmd,          \* the command holding XArmGradioController._lock
    g_hw,           \* the robot of part II: [link, mode, cb, rec, saves, stops]
    g_last_q,       \* XArmGradioController._last_q: NoQ or a joint vector
    g_record_started, \* XArmGradioController._record_started
    g_since,        \* time.time() - _last_motion_t in seconds, up to idle_timeout
    g_rep           \* the SDK's report thread: "idle", or "stop" when _on_report
                    \* has passed the test of line 405 and not yet made the call
                    \* of line 409

cvars == <<env, arm, state, lock, stop_event, motion_thread, thr, ui, hw, p2p>>
rvars == <<g_last_q, g_record_started, g_since, g_rep>>
gvars == <<g_arm, g_state, g_play_thread, g_stop_play_evt, g_cb_registered,
           g_thr, g_cmd, g_hw, rvars>>
vars == <<cvars, gvars>>

(***************************************************************************)
(* Part I: XArmController                                                  *)
(***************************************************************************)
ArmState == [connected |-> FALSE, ip |-> DefaultIp, teach_enabled |-> FALSE,
             playing |-> FALSE, init_pose |-> None,
             max_tcp_lin_vel_mmps |-> 200, max_tcp_lin_acc_mmps2 |-> 1000,
             last_play_speed_pct |-> 50]

Idle == [pc |-> "idle", op |-> "-", thread |-> 0, ret |-> "-"]

CtlInit ==
    /\ env \in {EnvSeq, EnvRace, EnvGradio, EnvLimits}
    /\ arm = None
    /\ state = ArmState
    /\ lock = None
    /\ stop_event = FALSE
    /\ motion_thread = 0
    /\ thr = [k \in Threads |-> "none"]
    /\ ui = [t \in UI |-> Idle]
    /\ hw = [link |-> "none", mode |-> -1]

\* threading.Thread.is_alive()
IsAlive(k) == k # 0 /\ thr[k] # "none"
Alive == {k \in Threads : thr[k] # "none"}

\* _check + _set_mode_and_ready: set_mode(mode) then set_state(0); every
\* exception is caught and reported as a failure. "set" tells whether the
\* robot accepted set_mode.
SetModeAndReady(a, o1, o2) ==
    IF a = None THEN [ok |-> FALSE, msg |-> "SDK not connected", set |-> FALSE]
    ELSE IF o1 = "raise" THEN [ok |-> FALSE, msg |-> "mode/state exception", set |-> FALSE]
    ELSE IF o1 = "fail" THEN [ok |-> FALSE, msg |-> "set_mode failed", set |-> FALSE]
    ELSE IF o2 = "raise" THEN [ok |-> FALSE, msg |-> "mode/state exception", set |-> TRUE]
    ELSE IF o2 = "fail" THEN [ok |-> FALSE, msg |-> "set_state failed", set |-> TRUE]
    ELSE [ok |-> TRUE, msg |-> "ready", set |-> TRUE]

\* the robot after a _set_mode_and_ready(mode) with result r
HwMode(h, r, mode) == IF r.set THEN [h EXCEPT !.mode = mode] ELSE h

\* a caller returns: the status is visible at pc "done"
Ret(op, status) == [pc |-> "done", op |-> op, thread |-> 0, ret |-> status]
Done(t, status) == Ret(ui[t].op, status)


Sub(t, pc, op) == [ui[t] EXCEPT !.pc = pc, !.op = op]

\* -------------------- connect (lines 170-232) --------------------
\* line 181 runs before the "already connected" test of line 187
ConnectLock(t, ip) ==
    /\ ui[t].pc = "idle" /\ t \in env.callers
    /\ lock = None
    /\ state' = [state EXCEPT !.ip = IF Strip(ip) # "" THEN Strip(ip) ELSE state.ip]
    /\ IF state.connected
       THEN /\ ui' = [ui EXCEPT ![t] = Ret("connect", "Already connected")]
            /\ UNCHANGED lock
       ELSE /\ ui' = [ui EXCEPT ![t] = Sub(t, "connect_hw", "connect")]
            /\ lock' = t
    /\ UNCHANGED <<env, arm, stop_event, motion_thread, thr, hw, p2p, gvars>>

\* lines 189-232 with the outcomes of XArmAPI(port=ip), motion_enable(True),
\* set_mode(0) and set_state(0): [arm, connected, hw, status]
ConnectBody(oNew, oEn, o1, o2) ==
    LET r == SetModeAndReady("XArmAPI", o1, o2)
        open == [hw EXCEPT !.link = "open"]
    IN IF oNew = "raise"
       THEN [arm |-> None, connected |-> FALSE, hw |-> hw, status |-> "Connect failed"]
       ELSE IF oEn = "raise"
       THEN [arm |-> None, connected |-> FALSE, hw |-> open, status |-> "Connect failed"]
       ELSE IF oEn = "fail"
       THEN [arm |-> "XArmAPI", connected |-> state.connected, hw |-> open,
             status |-> "motion_enable failed"]
       ELSE IF ~r.ok
       THEN [arm |-> "XArmAPI", connected |-> state.connected, hw |-> HwMode(open, r, 0),
             status |-> r.msg]
       ELSE [arm |-> "XArmAPI", connected |-> TRUE, hw |-> HwMode(open, r, 0),
             status |-> "Connected"]

\* lines 206-217: the two caches after the limit queries with replies rv and
\* ra; one try block holds both queries, so a raise of the first skips the
\* second: [vel, acc]
ConnectLimits(rv, ra) ==
    [vel |-> IF rv.kind = "value" THEN rv.val ELSE state.max_tcp_lin_vel_mmps,
     acc |-> IF rv.kind # "raise" /\ ra.kind = "value" THEN ra.val
             ELSE state.max_tcp_lin_acc_mmps2]

ConnectHw(t) ==
    /\ ui[t].pc = "connect_hw"
    /\ lock' = None
    /\ \E b \in {ConnectBody(oNew, oEn, o1, o2) :
                   oNew \in {"ok", "raise"}, oEn \in Outcome, o1 \in Outcome, o2 \in Outcome},
          lim \in {ConnectLimits(rv, ra) : rv \in env.vel_replies, ra \in env.acc_replies} :
        /\ arm' = b.arm
        /\ state' = IF b.status = "Connected"
                     THEN [state EXCEPT !.connected = TRUE,
                                        !.max_tcp_lin_vel_mmps = lim.vel,
                                        !.max_tcp_lin_acc_mmps2 = lim.acc]
                     ELSE [state EXCEPT !.connected = b.connected]
        /\ hw' = b.hw
        /\ ui' = [ui EXCEPT ![t] = Done(t, b.status)]
    /\ UNCHANGED <<env, stop_event, motion_thread, thr, p2p, gvars>>

\* -------------------- stop_motion (lines 418-462) --------------------
\* stop_motion returns to its caller: the UI, disconnect or toggle_teach
StopReturn(t, op, status) ==
    CASE op = "stop" -> Ret("stop", status)
      [] op = "disconnect" -> [pc |-> "disc_lock", op |-> op, thread |-> 0, ret |-> "-"]
      [] op = "toggle" -> [pc |-> "tt_lock2", op |-> op, thread |-> 0, ret |-> "-"]

\* phase 1 (lines 427-437): signal the loop and take the handle, under the lock
StopPhase1(t, op) ==
    /\ lock = None
    /\ IF ~state.connected \/ arm = None
       THEN /\ ui' = [ui EXCEPT ![t] = StopReturn(t, op, "Not connected")]
            /\ UNCHANGED <<state, stop_event>>
       ELSE /\ stop_event' = IF state.playing THEN TRUE ELSE stop_event
            /\ state' = [state EXCEPT !.playing = FALSE]
            /\ ui' = [ui EXCEPT ![t] = [pc |-> "stop_join", op |-> op, ret |-> "-",
                                        thread |-> IF state.playing THEN motion_thread ELSE 0]]
    /\ UNCHANGED <<env, arm, lock, motion_thread, thr, hw, p2p, gvars>>

StopMotion(t) == ui[t].pc = "idle" /\ t \in env.callers /\ StopPhase1(t, "stop")

\* phase 2 (lines 439-440): thread.join(timeout=2.0) returns when the thread
\* has exited or when the two seconds are over, whichever is first; the two
\* seconds run out only on a thread that is inside set_position(wait=True)
StopJoin(t) ==
    /\ ui[t].pc = "stop_join"
    /\ IF IsAlive(ui[t].thread) THEN thr[ui[t].thread] = "move" ELSE TRUE
    /\ ui' = [ui EXCEPT ![t].pc = "stop_lock3"]
    /\ UNCHANGED <<env, arm, state, lock, stop_event, motion_thread, thr, hw, p2p, gvars>>

\* phase 3 (lines 442-462) with no handle: nothing to restore
StopLock3(t) ==
    /\ ui[t].pc = "stop_lock3"
    /\ lock = None
    /\ IF arm = None
       THEN /\ ui' = [ui EXCEPT ![t] = StopReturn(t, ui[t].op, "Stopped")]
            /\ UNCHANGED lock
       ELSE /\ ui' = [ui EXCEPT ![t].pc = "stop_hw"]
            /\ lock' = t
    /\ UNCHANGED <<env, arm, state, stop_event, motion_thread, thr, hw, p2p, gvars>>

\* phase 3 (lines 445-462): _set_mode_and_ready(0), whose result is dropped,
\* then the move back to init_pose; unpacking a short pose raises: [hw, status]
StopBody(o1, o2, o3) ==
    [hw |-> HwMode(hw, SetModeAndReady(arm, o1, o2), 0),
     status |-> IF state.init_pose = None THEN "Stopped"
                ELSE IF ~Len6(state.init_pose) THEN "Stop error"
                ELSE IF o3 = "ok" THEN "Stopped"
                ELSE IF o3 = "fail" THEN "Stopped, return pose error"
                ELSE "Stop error"]

StopHw(t) ==
    /\ ui[t].pc = "stop_hw"
    /\ lock' = None
    /\ \E b \in {StopBody(o1, o2, o3) : o1 \in Outcome, o2 \in Outcome, o3 \in Outcome} :
        /\ hw' = b.hw
        /\ ui' = [ui EXCEPT ![t] = StopReturn(t, ui[t].op, b.status)]
    /\ UNCHANGED <<env, arm, state, stop_event, motion_thread, thr, p2p, gvars>>

\* -------------------- disconnect (lines 234-256) --------------------
Disconnect(t) == ui[t].pc = "idle" /\ t \in env.callers /\ StopPhase1(t, "disconnect")

DiscLock(t) ==
    /\ ui[t].pc = "disc_lock"
    /\ lock = None
    /\ IF arm = None
       THEN /\ state' = [state EXCEPT !.connected = FALSE, !.teach_enabled = FALSE]
            /\ ui' = [ui EXCEPT ![t] = Done(t, "Disconnected")]
            /\ UNCHANGED lock
       ELSE /\ ui' = [ui EXCEPT ![t].pc = "disc_hw"]
            /\ lock' = t
            /\ UNCHANGED state
    /\ UNCHANGED <<env, arm, stop_event, motion_thread, thr, hw, p2p, gvars>>

DisconnectBody(o) ==
    IF o = "raise"
    THEN state
    ELSE [state EXCEPT !.connected = FALSE, !.teach_enabled = FALSE]

\* self._arm.disconnect() in try/finally, then the session fields
DiscHw(t) ==
    /\ ui[t].pc = "disc_hw"
    /\ lock' = None
    /\ arm' = None
    /\ \E o \in {"ok", "raise"} :
        /\ hw' = IF o = "ok" THEN [hw EXCEPT !.link = "released"] ELSE hw
        /\ state' = DisconnectBody(o)
        /\ ui' = [ui EXCEPT ![t] = Done(t, IF o = "raise" THEN "Disconnect error" ELSE "Disconnected")]
    /\ UNCHANGED <<env, stop_event, motion_thread, thr, p2p, gvars>>


\* -------------------- toggle_teach (lines 259-300) --------------------
\* first locked block (lines 266-275): only the connection test has effect
TtLock1(t) ==
    /\ ui[t].pc = "idle" /\ t \in env.callers
    /\ lock = None
    /\ ui' = [ui EXCEPT ![t] = IF ~state.connected \/ arm = None
                               THEN Ret("toggle", "Not connected")
                               ELSE Sub(t, "tt_check", "toggle")]
    /\ UNCHANGED <<env, arm, state, lock, stop_event, motion_thread, thr, hw, p2p, gvars>>

\* line 277: state.playing is read without the lock
TtCheck(t) ==
    /\ ui[t].pc = "tt_check"
    /\ ui' = [ui EXCEPT ![t].pc = IF state.playing THEN "tt_stop" ELSE "tt_lock2"]
    /\ UNCHANGED <<env, arm, state, lock, stop_event, motion_thread, thr, hw, p2p, gvars>>

\* line 278: self.stop_motion()
TtStop(t) == ui[t].pc = "tt_stop" /\ StopPhase1(t, "toggle")

TtLock2(t) ==
    /\ ui[t].pc = "tt_lock2"
    /\ lock = None
    /\ lock' = t
    /\ ui' = [ui EXCEPT ![t].pc = "tt_hw"]
    /\ UNCHANGED <<env, arm, state, stop_event, motion_thread, thr, hw, p2p, gvars>>

\* a toggle_teach without the PositionReady fallback and that drops the Teach
\* flag on a failed disable (sensitivity test of C11)
ToggleBodyNoFallback(o1, o2, o3, o4) ==
    LET r == SetModeAndReady(arm, o1, o2)
    IN IF ~state.teach_enabled
       THEN IF ~r.ok
            THEN [teach |-> FALSE, hw |-> HwMode(hw, r, 2), status |-> "Teach enable failed"]
            ELSE [teach |-> TRUE, hw |-> HwMode(hw, r, 2), status |-> "Teach enabled"]
       ELSE [teach |-> FALSE, hw |-> HwMode(hw, r, 0),
             status |-> IF r.ok THEN "Teach disabled" ELSE "Teach disable failed"]

\* lines 281-296: the result of toggling with the hardware outcomes o1..o4:
\* [teach, hw, status]
ToggleBody(o1, o2, o3, o4) ==
    LET r == SetModeAndReady(arm, o1, o2)
        r0 == SetModeAndReady(arm, o3, o4)
    IN IF ~state.teach_enabled
       THEN IF ~r.ok
            THEN [teach |-> FALSE, hw |-> HwMode(HwMode(hw, r, 2), r0, 0),
                  status |-> "Teach enable failed"]
            ELSE [teach |-> TRUE, hw |-> HwMode(hw, r, 2), status |-> "Teach enabled"]
       ELSE IF ~r.ok
            THEN [teach |-> TRUE, hw |-> HwMode(hw, r, 0), status |-> "Teach disable failed"]
            ELSE [teach |-> FALSE, hw |-> HwMode(hw, r, 0), status |-> "Teach disabled"]

TtHw(t) ==
    /\ ui[t].pc = "tt_hw"
    /\ lock' = None
    /\ \E b \in {ToggleBody(o1, o2, o3, o4) :
                   o1 \in Outcome, o2 \in Outcome, o3 \in Outcome, o4 \in Outcome} :
        /\ state' = [state EXCEPT !.teach_enabled = b.teach]
        /\ hw' = b.hw
        /\ ui' = [ui EXCEPT ![t] = Done(t, b.status)]
    /\ UNCHANGED <<env, arm, stop_event, motion_thread, thr, p2p, gvars>>

\* -------------------- play_point_to_point (lines 369-416) --------------------
\* a thread object can be created when an id is unused: not alive and held by
\* no caller as the handle it joins
FreeIds == {k \in Threads : thr[k] = "none" /\ \A t \in UI : ui[t].thread # k}
NewId == CHOOSE k \in FreeIds : \A j \in FreeIds : k <= j

\* lines 386-389: the two early returns
PlayGuard == IF ~state.connected \/ arm = None THEN "Not connected"
             ELSE IF state.playing THEN "Already playing"
             ELSE "go"

PlayLock(t) ==
    /\ ui[t].pc = "idle" /\ t \in env.callers
    /\ lock = None
    /\ IF PlayGuard # "go"
       THEN /\ ui' = [ui EXCEPT ![t] = Ret("play", PlayGuard)]
            /\ UNCHANGED lock
       ELSE /\ FreeIds # {}
            /\ ui' = [ui EXCEPT ![t] = Sub(t, "play_hw", "play")]
            /\ lock' = t
    /\ UNCHANGED <<env, arm, state, stop_event, motion_thread, thr, hw, p2p, gvars>>

\* lines 390-416 with the outcomes of get_position (pose p), set_mode(0) and
\* set_state(0): [state, hw, start, status]; start tells whether the thread is
\* created and started
PlayBody(og, p, o1, o2, speed) ==
    LET r == SetModeAndReady(arm, o1, o2) IN
    IF og = "raise"
    THEN [state |-> [state EXCEPT !.playing = FALSE], hw |-> hw, start |-> FALSE,
          status |-> "Play error"]
    ELSE IF og = "fail"
    THEN [state |-> state, hw |-> hw, start |-> FALSE, status |-> "Failed to read TCP pose"]
    ELSE IF ~r.ok
    THEN [state |-> [state EXCEPT !.init_pose = p], hw |-> HwMode(hw, r, 0),
          start |-> FALSE, status |-> "Failed to enter position mode"]
    ELSE [state |-> [state EXCEPT !.init_pose = p, !.playing = TRUE,
                                  !.last_play_speed_pct = ClampPct(speed)],
          hw |-> HwMode(hw, r, 0), start |-> TRUE,
          status |-> "Point-to-point motion started"]

PlayHw(t) ==
    /\ ui[t].pc = "play_hw"
    /\ lock' = None
    /\ \E b \in {PlayBody(og, p, o1, o2, speed) : og \in Outcome, p \in env.poses,
                   o1 \in Outcome, o2 \in Outcome, speed \in Speeds} :
        /\ state' = b.state
        /\ hw' = b.hw
        /\ ui' = [ui EXCEPT ![t] = Done(t, b.status)]
        /\ IF b.start
           THEN /\ stop_event' = FALSE
                /\ motion_thread' = NewId
                /\ thr' = [thr EXCEPT ![NewId] = "start"]
           ELSE UNCHANGED <<stop_event, motion_thread, thr>>
    /\ UNCHANGED <<env, arm, p2p, gvars>>

\* -------------------- _p2p_loop (lines 303-367) --------------------
\* lines 318-354: the assert on _arm, the pose test, set_tcp_jerk
LoopStart(k) ==
    /\ thr[k] = "start"
    /\ \E o \in {"ok", "raise"} :
        thr' = [thr EXCEPT ![k] =
                  IF arm = None \/ state.init_pose = None \/ ~Len6(state.init_pose)
                     \/ o = "raise"
                  THEN "none" ELSE "poll"]
    /\ UNCHANGED <<env, arm, state, lock, stop_event, motion_thread, ui, hw, p2p, gvars>>

\* line 357: the loop condition; lines 359-364: set_position is entered
\* (self._arm is read again: None raises, and the except breaks the loop)
LoopPoll(k) ==
    /\ thr[k] = "poll"
    /\ thr' = [thr EXCEPT ![k] = IF stop_event \/ arm = None THEN "none" ELSE "move"]
    /\ UNCHANGED <<env, arm, state, lock, stop_event, motion_thread, ui, hw, p2p, gvars>>

\* lines 359-367: where the loop goes after set_position(..., wait=True) with
\* outcome o; the return code is not looked at, an exception breaks the loop
LoopMoveBody(o) == IF o = "raise" THEN "none" ELSE "poll"

LoopMove(k) ==
    /\ thr[k] = "move"
    /\ \E o \in Outcome : thr' = [thr EXCEPT ![k] = LoopMoveBody(o)]
    /\ UNCHANGED <<env, arm, state, lock, stop_event, motion_thread, ui, hw, p2p, gvars>>

\* -------------------- the bounce endpoints (lines 114-167, 344-352, 405) ----
\* Lengths are in tenths of a millimetre, angles in degrees (multiples of a
\* quarter turn, where sine and cosine are -1, 0 or 1), the requested
\* amplitude in tenths of a centimetre, that is in millimetres.
Axes == {"x", "y", "z"}
Angles == {-90, 0, 90, 180}
\* requested amplitudes: -5 cm, 0, 0.5 cm, 10 cm, 20 cm, 20.1 cm and 50 cm
Amplitudes == {-50, 0, 5, 100, 200, 201, 500}
\* centre poses [x, y, z, roll, pitch, yaw] read by get_position
Centers == {<<3000, -1500, 2500, rx, ry, rz>> : rx \in Angles, ry \in Angles, rz \in Angles}

\* math.cos and math.sin of an angle in degrees
Cos(d) == CASE d = 0 -> 1 [] d = 180 -> -1 [] OTHER -> 0
Sin(d) == CASE d = 90 -> 1 [] d = -90 -> -1 [] OTHER -> 0

\* _rpy_to_rot (lines 131-144)
RpyToRot(rx, ry, rz) ==
    LET cx == Cos(rx)  sx == Sin(rx)
        cy == Cos(ry)  sy == Sin(ry)
        cz == Cos(rz)  sz == Sin(rz)
    IN << <<cz * cy, cz * sy * sx - sz * cx, cz * sy * cx + sz * sx>>,
          <<sz * cy, sz * sy * sx + cz * cx, sz * sy * cx - cz * sx>>,
          <<-sy, cy * sx, cy * cx>> >>

\* _tool_axis_col (lines 160-166), columns counted from 1
ToolAxisCol(axis) == CASE axis = "x" -> 1 [] axis = "y" -> 2 [] axis = "z" -> 3

\* an amplitude clamp with no ceiling (sensitivity test of C17)
AmpMmNoCeiling(amplitude) == Max(0, amplitude)

\* line 405: amp_mm = max(0.0, min(200.0, float(amplitude_cm) * 10.0))
AmpMm(amplitude) == Max(0, Min(200, amplitude))

\* lines 344-352: the two endpoints for the centre pose and amp_mm; the
\* selected column of R has length 1, by which lines 348-349 divide
P2pEndpoints(center, amp_mm, axis) ==
    LET R == RpyToRot(center[4], center[5], center[6])
        col == ToolAxisCol(axis)
        fx == R[1][col]
        fy == R[2][col]
        fz == R[3][col]
        n2 == fx * fx + fy * fy + fz * fz
        norm == CHOOSE n \in 0 .. 3 : n * n = n2
        half == Max(0, amp_mm) * 5
    IN [p_low |-> <<center[1] - (fx \div norm) * half, center[2] - (fy \div norm) * half,
                    center[3] - (fz \div norm) * half, center[4], center[5], center[6]>>,
        p_high |-> <<center[1] + (fx \div norm) * half, center[2] + (fy \div norm) * half,
                     center[3] + (fz \div norm) * half, center[4], center[5], center[6]>>]

NoPose == <<0, 0, 0, 0, 0, 0>>
NoP2p == [stage |-> "none", amplitude |-> 0, axis |-> "z", center |-> NoPose,
          amp_mm |-> 0, p_low |-> NoPose, p_high |-> NoPose]

\* a play request with its arguments and the pose it reads
P2pRequests == {[NoP2p EXCEPT !.stage = "request", !.amplitude = a, !.axis = x,
                              !.center = c] :
                  a \in Amplitudes, x \in Axes, c \in Centers}

\* play_point_to_point computes amp_mm for the thread (line 405)
P2pPlay ==
    /\ p2p.stage = "request"
    /\ p2p' = [p2p EXCEPT !.stage = "play", !.amp_mm = AmpMm(p2p.amplitude)]
    /\ UNCHANGED <<env, arm, state, lock, stop_event, motion_thread, thr, ui, hw, gvars>>

\* _p2p_loop computes the endpoints before its first move (lines 344-352)
P2pLoop ==
    /\ p2p.stage = "play"
    /\ LET e == P2pEndpoints(p2p.center, p2p.amp_mm, p2p.axis)
       IN p2p' = [p2p EXCEPT !.stage = "loop", !.p_low = e.p_low, !.p_high = e.p_high]
    /\ UNCHANGED <<env, arm, state, lock, stop_event, motion_thread, thr, ui, hw, gvars>>

\* the status has been handed to the UI
Return(t) ==
    /\ ui[t].pc = "done"
    /\ ui' = [ui EXCEPT ![t] = Idle]
    /\ UNCHANGED <<env, arm, state, lock, stop_event, motion_thread, thr, hw, p2p, gvars>>

(***************************************************************************)
(* Part II: XArmGradioController                                           *)
(*                                                                         *)
(* Every command runs inside "with self._lock" from its first to its last  *)
(* statement, so commands do not overlap: g_cmd is the command in progress *)
(* and the lock is held exactly while g_cmd.pc is not "idle" or "done".    *)
(* The playback loops and _on_report take no lock. Speeds are in tenths.   *)
(***************************************************************************)
PlayThreads == 1..MaxPlayThreads
\* ui_speed arguments of start_playback, in tenths: -0.5, 1.5 and 7.0
UiSpeeds == {-5, 15, 70}
\* addresses typed in the UI of part II (the address is stored as typed)
GAddresses == {"", " 10.0.0.2 "}

\* DetectConfig: motion_threshold 0.015 rad in thousandths of a radian, and
\* idle_timeout 1.0 s in seconds
motion_threshold == 15
idle_timeout == 1

\* joint vectors of the reports, in thousandths of a radian (four joints);
\* the empty report is one without angles
qA == <<0, 0, 0, 0>>
qB == <<8, 8, 8, 8>>
qC == <<9, 0, 0, 0>>
qD == <<8, 0, 0, 0>>
Reports == {<<>>, qA, qB, qC, qD}
\* _last_q is None: no report has been kept yet (a kept report is never empty)
NoQ == <<>>

Abs(x) == IF x >= 0 THEN x ELSE -x
\* lines 377-380: the sum of the squared per-joint deltas
RECURSIVE Dq2(_, _)
Dq2(q, b) == IF q = <<>> \/ b = <<>> THEN 0
             ELSE (Head(q) - Head(b)) * (Head(q) - Head(b)) + Dq2(Tail(q), Tail(b))
\* line 383: the largest absolute per-joint delta
RECURSIVE MaxAbs(_, _)
MaxAbs(q, b) == IF q = <<>> \/ b = <<>> THEN 0
                ELSE Max(Abs(Head(q) - Head(b)), MaxAbs(Tail(q), Tail(b)))
\* line 384: dist >= motion_threshold (compared as squares) or
\* max_abs >= motion_threshold * 0.6
Moved(q, b) == \/ Dq2(q, b) >= motion_threshold * motion_threshold
               \/ 10 * MaxAbs(q, b) >= 6 * motion_threshold

AppState == [ip |-> "", connected |-> FALSE, teach_mode |-> FALSE,
             recording |-> FALSE, last_status |-> "idle", playback_speed |-> 10,
             collision_sensitivity |-> 3, teach_sensitivity |-> 3]

GIdle == [pc |-> "idle", op |-> "-", ret |-> "-"]
\* a thread object that does not run
NoThread == [st |-> "none", double_speed |-> 0]
GRet(op, status) == [pc |-> "done", op |-> op, ret |-> status]

GInit ==
    /\ g_arm = None
    /\ g_state = AppState
    /\ g_play_thread = 0
    /\ g_stop_play_evt = FALSE
    /\ g_cb_registered = FALSE
    /\ g_thr = [k \in PlayThreads |-> NoThread]
    /\ g_cmd = GIdle
    /\ g_hw = [link |-> "none", mode |-> -1, cb |-> FALSE, rec |-> FALSE, saves |-> 0,
               stops |-> 0]
    /\ g_last_q = NoQ
    /\ g_record_started = FALSE
    /\ g_since = idle_timeout
    /\ g_rep = "idle"

GIsAlive(k) == k # 0 /\ g_thr[k].st # "none"
GAlive == {k \in PlayThreads : g_thr[k].st # "none"}

\* the robot after set_mode(mode) with outcome o
GSetMode(h, o, mode) == IF o = "ok" THEN [h EXCEPT !.mode = mode] ELSE h

\* -------------------- connect (lines 109-150) --------------------
\* lines 125-150 with the outcomes of XArmAPI(ip), motion_enable(True),
\* set_mode(0), set_state(0), whose codes are dropped: [arm, state, hw, status]
GConnectBody(ip, oNew, oEn, o1, o2) ==
    LET open == [g_hw EXCEPT !.link = "open", !.cb = FALSE] IN
    IF oNew = "raise"
    THEN [arm |-> None, state |-> [g_state EXCEPT !.connected = FALSE], hw |-> g_hw,
          status |-> "connect failed"]
    ELSE IF oEn = "raise"
    THEN [arm |-> None, state |-> [g_state EXCEPT !.ip = ip, !.connected = FALSE],
          hw |-> open, status |-> "connect failed"]
    ELSE IF o1 = "raise" \/ o2 = "raise"
    THEN [arm |-> None, state |-> [g_state EXCEPT !.ip = ip, !.connected = FALSE],
          hw |-> GSetMode(open, o1, 0), status |-> "connect failed"]
    ELSE [arm |-> "XArmAPI",
          state |-> [g_state EXCEPT !.ip = ip, !.connected = TRUE,
                                    !.last_status = "connected"],
          hw |-> GSetMode(open, o1, 0), status |-> "connected"]

GConnect(ip) ==
    /\ g_cmd.pc = "idle"
    /\ IF g_arm # None
       THEN /\ g_cmd' = GRet("connect", "already connected")
            /\ UNCHANGED <<g_arm, g_state, g_hw>>
       ELSE \E b \in {GConnectBody(ip, oNew, oEn, o1, o2) :
                        oNew \in {"ok", "raise"}, oEn \in Outcome,
                        o1 \in Outcome, o2 \in Outcome} :
            /\ g_arm' = b.arm
            /\ g_state' = b.state
            /\ g_hw' = b.hw
            /\ g_cmd' = GRet("connect", b.status)
    /\ UNCHANGED <<g_play_thread, g_stop_play_evt, g_cb_registered, g_thr, rvars, cvars>>

\* -------------------- _stop_playback_thread (lines 466-470) --------------------
\* lines 161-190 of disconnect, after _stop_playback_thread, with the outcomes
\* of stop_record_trajectory(filename=None), register_report_callback,
\* set_mode(0) and arm.disconnect(): the robot afterwards
GDisconnectBody(oS, oR, o1, oD) ==
    LET h1 == IF g_arm # None /\ g_state.recording
              THEN [g_hw EXCEPT !.stops = @ + 1, !.rec = IF oS = "ok" THEN FALSE ELSE @]
              ELSE g_hw
        h2 == IF g_arm # None /\ g_cb_registered /\ oR = "ok"
              THEN [h1 EXCEPT !.cb = FALSE] ELSE h1
        h3 == IF g_arm # None /\ g_state.teach_mode THEN GSetMode(h2, o1, 0) ELSE h2
    IN IF g_arm # None /\ oD = "ok" THEN [h3 EXCEPT !.link = "released"] ELSE h3

\* what follows _stop_playback_thread in stop_playback (lines 323-324) and in
\* disconnect (lines 161-190)
GAfterStop(op) ==
    /\ g_play_thread' = 0
    /\ IF op = "stop"
       THEN /\ g_state' = [g_state EXCEPT !.last_status = "play:stop"]
            /\ g_cmd' = GRet(op, "play:stop")
            /\ UNCHANGED <<g_arm, g_cb_registered, g_hw>>
       ELSE /\ g_arm' = None
            /\ g_state' = [g_state EXCEPT !.connected = FALSE, !.teach_mode = FALSE,
                                          !.recording = FALSE,
                                          !.last_status = "disconnected"]
            /\ g_cb_registered' = IF g_arm # None THEN FALSE ELSE g_cb_registered
            /\ \E h \in {GDisconnectBody(oS, oR, o1, oD) :
                           oS \in Outcome, oR \in {"ok", "raise"}, o1 \in Outcome,
                           oD \in {"ok", "raise"}} :
                 g_hw' = h
            /\ g_cmd' = GRet(op, "disconnected")

\* lines 467-469: set the event and start the join, if the thread is alive
GStopBegin(op) ==
    /\ g_cmd.pc = "idle"
    /\ IF GIsAlive(g_play_thread)
       THEN /\ g_stop_play_evt' = TRUE
            /\ g_cmd' = [pc |-> "join", op |-> op, ret |-> "-"]
            /\ UNCHANGED <<g_arm, g_state, g_play_thread, g_cb_registered, g_hw>>
       ELSE /\ GAfterStop(op)
            /\ UNCHANGED g_stop_play_evt
    /\ UNCHANGED <<g_thr, rvars, cvars>>

GStopPlayback == GStopBegin("stop")
GDisconnect == GStopBegin("disconnect")

\* join(timeout=1.0) returns: the thread has exited, or the second is over,
\* which happens only to a thread inside playback_trajectory(wait=True);
\* line 470 then drops the handle
GJoin ==
    /\ g_cmd.pc = "join"
    /\ IF GIsAlive(g_play_thread) THEN g_thr[g_play_thread].st = "pass" ELSE TRUE
    /\ GAfterStop(g_cmd.op)
    /\ UNCHANGED <<g_stop_play_evt, g_thr, rvars, cvars>>

\* -------------------- toggle_teach (lines 194-235) --------------------
\* a toggle_teach that changes the mode before it stops the recording, so that
\* a failed mode change leaves the recording as it was (sensitivity test of
\* C28)
GToggleBodyModeFirst(enable, o1, o2, oR, oS) ==
    LET h0 == IF g_state.recording
              THEN [g_hw EXCEPT !.stops = @ + 1, !.rec = IF oS = "ok" THEN FALSE ELSE @]
              ELSE g_hw
        rs0 == IF g_state.recording THEN FALSE ELSE g_record_started
    IN
    IF enable
    THEN IF o1 = "raise" \/ o2 = "raise"
         THEN [state |-> g_state, cb |-> g_cb_registered, hw |-> GSetMode(g_hw, o1, 2),
               rs |-> g_record_started, status |-> "teach toggle failed"]
         ELSE [state |-> [g_state EXCEPT !.teach_mode = TRUE, !.last_status = "waiting"],
               cb |-> IF g_cb_registered THEN TRUE ELSE oR = "ok",
               hw |-> [GSetMode(g_hw, o1, 2) EXCEPT
                          !.cb = IF ~g_cb_registered /\ oR = "ok" THEN TRUE ELSE @],
               rs |-> g_record_started, status |-> "waiting"]
    ELSE IF o1 = "raise" \/ o2 = "raise"
         THEN [state |-> g_state, cb |-> g_cb_registered, hw |-> GSetMode(g_hw, o1, 0),
               rs |-> g_record_started, status |-> "teach toggle failed"]
         ELSE [state |-> [g_state EXCEPT !.recording = FALSE, !.teach_mode = FALSE,
                                         !.last_status = "idle"],
               cb |-> FALSE,
               hw |-> [GSetMode(h0, o1, 0) EXCEPT
                          !.cb = IF g_cb_registered /\ oR = "ok" THEN FALSE ELSE @],
               rs |-> rs0, status |-> "idle"]

\* lines 207-235 with the outcomes of set_mode, set_state (codes dropped),
\* register_report_callback and stop_record_trajectory(filename=None):
\* [state, cb, hw, rs, status]; rs is _record_started
GToggleBody(enable, o1, o2, oR, oS) ==
    LET h0 == IF g_state.recording
              THEN [g_hw EXCEPT !.stops = @ + 1, !.rec = IF oS = "ok" THEN FALSE ELSE @]
              ELSE g_hw
        rs0 == IF g_state.recording THEN FALSE ELSE g_record_started
    IN
    IF enable
    THEN IF o1 = "raise" \/ o2 = "raise"
         THEN [state |-> g_state, cb |-> g_cb_registered, hw |-> GSetMode(g_hw, o1, 2),
               rs |-> g_record_started, status |-> "teach toggle failed"]
         ELSE [state |-> [g_state EXCEPT !.teach_mode = TRUE, !.last_status = "waiting"],
               cb |-> IF g_cb_registered THEN TRUE ELSE oR = "ok",
               hw |-> [GSetMode(g_hw, o1, 2) EXCEPT
                          !.cb = IF ~g_cb_registered /\ oR = "ok" THEN TRUE ELSE @],
               rs |-> g_record_started, status |-> "waiting"]
    ELSE IF o1 = "raise" \/ o2 = "raise"
         THEN [state |-> [g_state EXCEPT !.recording = FALSE], cb |-> g_cb_registered,
               hw |-> GSetMode(h0, o1, 0), rs |-> rs0, status |-> "teach toggle failed"]
         ELSE [state |-> [g_state EXCEPT !.recording = FALSE, !.teach_mode = FALSE,
                                         !.last_status = "idle"],
               cb |-> FALSE,
               hw |-> [GSetMode(h0, o1, 0) EXCEPT
                          !.cb = IF g_cb_registered /\ oR = "ok" THEN FALSE ELSE @],
               rs |-> rs0, status |-> "idle"]

GToggleTeach(enable) ==
    /\ g_cmd.pc = "idle"
    /\ IF g_arm = None
       THEN /\ g_cmd' = GRet("toggle", "not connected")
            /\ UNCHANGED <<g_state, g_cb_registered, g_hw, g_record_started>>
       ELSE \E b \in {GToggleBody(enable, o1, o2, oR, oS) :
                        o1 \in Outcome, o2 \in Outcome, oR \in {"ok", "raise"},
                        oS \in Outcome} :
            /\ g_state' = b.state
            /\ g_cb_registered' = b.cb
            /\ g_hw' = b.hw
            /\ g_record_started' = b.rs
            /\ g_cmd' = GRet("toggle", b.status)
    /\ UNCHANGED <<g_arm, g_play_thread, g_stop_play_evt, g_thr, g_last_q, g_since, g_rep,
                   cvars>>

\* -------------------- the sensitivity setters (lines 239-288) --------------------
\* levels given by the sliders' handlers, and beyond their range
Levels == {-1, 7}
\* max(0, min(5, int(level)))
ClampLevel(level) == Max(0, Min(5, level))

\* lines 250-263 with the outcome of arm.set_collision_sensitivity (its code
\* goes into the status text, save_conf is best effort): [state, status].
\* The robot's own sensitivity settings are not part of g_hw.
GSetCollisionBody(level, o) ==
    IF o = "raise" THEN [state |-> g_state, status |-> "collision set failed"]
    ELSE [state |-> [g_state EXCEPT !.collision_sensitivity = ClampLevel(level)],
          status |-> "collision"]

GSetCollisionSensitivity(level) ==
    /\ g_cmd.pc = "idle"
    /\ IF g_arm = None
       THEN /\ g_cmd' = GRet("collision", "not connected")
            /\ UNCHANGED g_state
       ELSE \E b \in {GSetCollisionBody(level, o) : o \in Outcome} :
            /\ g_state' = b.state
            /\ g_cmd' = GRet("collision", b.status)
    /\ UNCHANGED <<g_arm, g_play_thread, g_stop_play_evt, g_cb_registered, g_thr, g_hw,
                   rvars, cvars>>

\* lines 278-288 with the outcome of arm.set_teach_sensitivity, or "absent"
\* when the handle has no such method: [state, status]
GSetTeachBody(level, o) ==
    IF o = "absent" THEN [state |-> g_state, status |-> "teach sensitivity unsupported"]
    ELSE IF o = "raise" THEN [state |-> g_state, status |-> "teach sensitivity set failed"]
    ELSE [state |-> [g_state EXCEPT !.teach_sensitivity = ClampLevel(level)],
          status |-> "teach_sens"]

GSetTeachSensitivity(level) ==
    /\ g_cmd.pc = "idle"
    /\ IF g_arm = None
       THEN /\ g_cmd' = GRet("teach_sens", "not connected")
            /\ UNCHANGED g_state
       ELSE \E b \in {GSetTeachBody(level, o) : o \in Outcome \cup {"absent"}} :
            /\ g_state' = b.state
            /\ g_cmd' = GRet("teach_sens", b.status)
    /\ UNCHANGED <<g_arm, g_play_thread, g_stop_play_evt, g_cb_registered, g_thr, g_hw,
                   rvars, cvars>>

\* -------------------- start_playback (lines 292-312) --------------------
GFreeIds == {k \in PlayThreads : g_thr[k].st = "none"}
GNewId == CHOOSE k \in GFreeIds : \A j \in GFreeIds : k <= j

\* a start_playback without the test for a handle (sensitivity test of C38)
GStartGuardNoSession == IF GIsAlive(g_play_thread) THEN "playback already running"
                        ELSE "go"

\* lines 303-306: the two early returns
GStartGuard == IF g_arm = None THEN "not connected"
               ELSE IF GIsAlive(g_play_thread) THEN "playback already running"
               ELSE "go"

GStartPlayback(ui_speed) ==
    /\ g_cmd.pc = "idle"
    /\ IF GStartGuard # "go"
       THEN /\ g_cmd' = GRet("start", GStartGuard)
            /\ UNCHANGED <<g_state, g_play_thread, g_stop_play_evt, g_thr>>
       ELSE /\ GFreeIds # {}
            /\ g_state' = [g_state EXCEPT !.playback_speed = Max(0, Min(50, ui_speed)),
                                          !.last_status = "play:start"]
            /\ g_stop_play_evt' = FALSE
            /\ g_play_thread' = GNewId
            /\ g_thr' = [g_thr EXCEPT ![GNewId] = [st |-> "start", double_speed |-> 0]]
            /\ g_cmd' = GRet("start", "play:start")
    /\ UNCHANGED <<g_arm, g_cb_registered, g_hw, rvars, cvars>>

\* -------------------- _playback_loop (lines 432-464) --------------------
\* a snapping whose bounds are exclusive (sensitivity test of C16)
SnapDoubleSpeedStrict(ui_speed) ==
    IF ui_speed > 30 THEN 4
    ELSE IF ui_speed > 15 THEN 2
    ELSE 1

\* lines 340-355, in tenths
SnapDoubleSpeed(ui_speed) ==
    IF ui_speed >= 30 THEN 4
    ELSE IF ui_speed >= 15 THEN 2
    ELSE 1

\* lines 433-446: the handle and the speed are read once; set_mode(0),
\* set_state(0) and load_trajectory are best effort
GLoopStart(k) ==
    /\ g_thr[k].st = "start"
    /\ IF g_arm = None
       THEN /\ g_thr' = [g_thr EXCEPT ![k] = NoThread]
            /\ UNCHANGED g_hw
       ELSE /\ g_thr' = [g_thr EXCEPT ![k] =
                           [st |-> "poll",
                            double_speed |-> SnapDoubleSpeed(g_state.playback_speed)]]
            /\ \E o \in Outcome : g_hw' = GSetMode(g_hw, o, 0)
    /\ UNCHANGED <<g_arm, g_state, g_play_thread, g_stop_play_evt, g_cb_registered,
                   g_cmd, rvars, cvars>>

\* a playback loop that looks at the event under the state lock (sensitivity
\* test of C22)
GLoopPollLocked(k) ==
    /\ g_cmd.pc \in {"idle", "done"}
    /\ g_thr[k].st = "poll"
    /\ g_thr' = [g_thr EXCEPT ![k].st = IF g_stop_play_evt THEN "exit" ELSE "pass"]
    /\ UNCHANGED <<g_arm, g_state, g_play_thread, g_stop_play_evt, g_cb_registered,
                   g_cmd, g_hw, rvars, cvars>>

\* lines 448 and 457-458: the event is looked at before every pass
GLoopPoll(k) ==
    /\ g_thr[k].st = "poll"
    /\ g_thr' = [g_thr EXCEPT ![k].st = IF g_stop_play_evt THEN "exit" ELSE "pass"]
    /\ UNCHANGED <<g_arm, g_state, g_play_thread, g_stop_play_evt, g_cb_registered,
                   g_cmd, g_hw, rvars, cvars>>

\* a playback loop that gives up at the first failed pass (sensitivity test
\* of C20)
GLoopPassFailFast(k) ==
    /\ g_thr[k].st = "pass"
    /\ \E o \in {"ok", "raise"} :
         g_thr' = [g_thr EXCEPT ![k].st = IF o = "raise" THEN "exit" ELSE "poll"]
    /\ UNCHANGED <<g_arm, g_state, g_play_thread, g_stop_play_evt, g_cb_registered,
                   g_cmd, g_hw, rvars, cvars>>

\* line 451: playback_trajectory(times=1, wait=True) returns (its code is
\* dropped) or raises, which leads to the back-off wait
GLoopPass(k) ==
    /\ g_thr[k].st = "pass"
    /\ \E o \in {"ok", "raise"} :
         g_thr' = [g_thr EXCEPT ![k].st = IF o = "raise" THEN "backoff" ELSE "poll"]
    /\ UNCHANGED <<g_arm, g_state, g_play_thread, g_stop_play_evt, g_cb_registered,
                   g_cmd, g_hw, rvars, cvars>>

\* lines 454-455: _stop_play_evt.wait(0.2) after a failed pass
GLoopBackoff(k) ==
    /\ g_thr[k].st = "backoff"
    /\ g_thr' = [g_thr EXCEPT ![k].st = IF g_stop_play_evt THEN "exit" ELSE "poll"]
    /\ UNCHANGED <<g_arm, g_state, g_play_thread, g_stop_play_evt, g_cb_registered,
                   g_cmd, g_hw, rvars, cvars>>

\* lines 461-464: set_state(0), best effort, and the thread ends
GLoopExit(k) ==
    /\ g_thr[k].st = "exit"
    /\ g_thr' = [g_thr EXCEPT ![k] = NoThread]
    /\ UNCHANGED <<g_arm, g_state, g_play_thread, g_stop_play_evt, g_cb_registered,
                   g_cmd, g_hw, rvars, cvars>>

\* -------------------- _on_report (lines 357-430) --------------------
\* The SDK's report thread calls _on_report with a joint vector q while the
\* link is open and the callback is registered; _on_report takes no lock.
\* The result with the outcomes of start_record_trajectory,
\* stop_record_trajectory(filename=traj_filename), set_mode(0), set_state(0)
\* and register_report_callback: [state, cb, hw, last_q, rs, since]; a report
\* without angles (lines 366-371) changes nothing.
\* hw.saves counts the stop+save calls and hw.stops all the
\* stop_record_trajectory calls issued since the recording began.
OnReportBody(q, oStart, oStop, o1, o2, oR) ==
    LET moved == g_last_q # NoQ /\ Moved(q, g_last_q)
        same == [state |-> g_state, cb |-> g_cb_registered, hw |-> g_hw, last_q |-> q,
                 rs |-> g_record_started, since |-> g_since]
    IN
    IF q = <<>>
    THEN [same EXCEPT !.last_q = g_last_q]
    ELSE IF ~g_state.teach_mode
    THEN [same EXCEPT !.state.last_status = "idle"]
    ELSE IF moved
    THEN IF g_record_started
         THEN [same EXCEPT !.since = 0]
         ELSE IF g_arm # None /\ oStart = "raise"
         THEN [same EXCEPT !.since = 0, !.state.last_status = "record:start failed"]
         ELSE [same EXCEPT !.since = 0, !.rs = TRUE,
                           !.state.recording = TRUE, !.state.last_status = "recording",
                           !.hw.saves = 0, !.hw.stops = 0,
                           !.hw.rec = IF g_arm # None /\ oStart = "ok" THEN TRUE ELSE @]
    ELSE IF ~(g_record_started /\ g_since >= idle_timeout)
    THEN same
    ELSE LET saved == g_arm = None \/ oStop # "raise"
             exited == g_arm = None \/ (o1 # "raise" /\ o2 # "raise")
             h1 == IF g_arm = None THEN g_hw
                   ELSE [g_hw EXCEPT !.saves = @ + 1, !.stops = @ + 1,
                                     !.rec = IF oStop = "ok" THEN FALSE ELSE @]
             h2 == IF g_arm = None THEN h1 ELSE GSetMode(h1, o1, 0)
             h3 == IF g_arm # None /\ exited /\ g_cb_registered /\ oR = "ok"
                   THEN [h2 EXCEPT !.cb = FALSE] ELSE h2
             s1 == IF saved
                   THEN [g_state EXCEPT !.recording = FALSE, !.last_status = "idle"]
                   ELSE [g_state EXCEPT !.last_status = "record:save failed"]
         IN [state |-> IF exited THEN [s1 EXCEPT !.teach_mode = FALSE] ELSE s1,
             cb |-> IF g_arm # None /\ exited THEN FALSE ELSE g_cb_registered,
             hw |-> h3, last_q |-> q,
             rs |-> IF saved THEN FALSE ELSE g_record_started,
             since |-> g_since]

OnReport(q) ==
    /\ g_hw.link = "open" /\ g_hw.cb
    /\ g_rep = "idle"
    /\ \E b \in {OnReportBody(q, oStart, oStop, o1, o2, oR) :
                   oStart \in Outcome, oStop \in Outcome, o1 \in Outcome,
                   o2 \in Outcome, oR \in {"ok", "raise"}} :
        /\ b.hw.saves <= MaxSaves
        /\ g_state' = b.state
        /\ g_cb_registered' = b.cb
        /\ g_hw' = b.hw
        /\ g_last_q' = b.last_q
        /\ g_record_started' = b.rs
        /\ g_since' = b.since
    /\ UNCHANGED <<g_arm, g_play_thread, g_stop_play_evt, g_thr, g_cmd, g_rep, cvars>>

\* _on_report takes no lock, so a command can run between its test of line
\* 405 and its calls of lines 407-428. Lines 364-405 of a report that passes
\* that test (Teach on, no motion, a recording started, idle_timeout over):
OnReportCheck(q) ==
    /\ g_hw.link = "open" /\ g_hw.cb
    /\ g_rep = "idle"
    /\ q # <<>>
    /\ g_state.teach_mode
    /\ ~(g_last_q # NoQ /\ Moved(q, g_last_q))
    /\ g_record_started /\ g_since >= idle_timeout
    /\ g_last_q' = q
    /\ g_rep' = "stop"
    /\ UNCHANGED <<g_arm, g_state, g_play_thread, g_stop_play_evt, g_cb_registered,
                   g_thr, g_cmd, g_hw, g_record_started, g_since, cvars>>

\* lines 407-428 on the state as it is when they run, with the outcomes of
\* stop_record_trajectory(filename=traj_filename), set_mode(0), set_state(0)
\* and register_report_callback: [state, cb, hw, rs]
OnReportStopBody(oStop, o1, o2, oR) ==
    LET saved == g_arm = None \/ oStop # "raise"
        exited == g_arm = None \/ (o1 # "raise" /\ o2 # "raise")
        h1 == IF g_arm = None THEN g_hw
              ELSE [g_hw EXCEPT !.saves = @ + 1, !.stops = @ + 1,
                                !.rec = IF oStop = "ok" THEN FALSE ELSE @]
        h2 == IF g_arm = None THEN h1 ELSE GSetMode(h1, o1, 0)
        h3 == IF g_arm # None /\ exited /\ g_cb_registered /\ oR = "ok"
              THEN [h2 EXCEPT !.cb = FALSE] ELSE h2
        s1 == IF saved
              THEN [g_state EXCEPT !.recording = FALSE, !.last_status = "idle"]
              ELSE [g_state EXCEPT !.last_status = "record:save failed"]
    IN [state |-> IF exited THEN [s1 EXCEPT !.teach_mode = FALSE] ELSE s1,
        cb |-> IF g_arm # None /\ exited THEN FALSE ELSE g_cb_registered,
        hw |-> h3,
        rs |-> IF saved THEN FALSE ELSE g_record_started]

OnReportStop ==
    /\ g_rep = "stop"
    /\ \E b \in {OnReportStopBody(oStop, o1, o2, oR) :
                   oStop \in Outcome, o1 \in Outcome, o2 \in Outcome,
                   oR \in {"ok", "raise"}} :
        /\ b.hw.saves <= MaxSaves
        /\ g_state' = b.state
        /\ g_cb_registered' = b.cb
        /\ g_hw' = b.hw
        /\ g_record_started' = b.rs
    /\ g_rep' = "idle"
    /\ UNCHANGED <<g_arm, g_play_thread, g_stop_play_evt, g_thr, g_cmd, g_last_q, g_since,
                   cvars>>

\* a second goes by without a motion tick
Tick ==
    /\ g_since < idle_timeout
    /\ g_since' = g_since + 1
    /\ UNCHANGED <<g_arm, g_state, g_play_thread, g_stop_play_evt, g_cb_registered,
                   g_thr, g_cmd, g_hw, g_last_q, g_record_started, g_rep, cvars>>

\* the status has been handed to the UI
GReturn ==
    /\ g_cmd.pc = "done"
    /\ g_cmd' = GIdle
    /\ UNCHANGED <<g_arm, g_state, g_play_thread, g_stop_play_evt, g_cb_registered,
                   g_thr, g_hw, rvars, cvars>>

(***************************************************************************)
(* Specifications                                                          *)
(***************************************************************************)
\* XArmController with one caller
Init == CtlInit /\ env = EnvSeq /\ p2p = NoP2p /\ GInit
\* XArmController with two concurrent callers
InitRace == CtlInit /\ env = EnvRace /\ p2p = NoP2p /\ GInit

Next ==
    \/ \E t \in UI, ip \in env.addresses : ConnectLock(t, ip)
    \/ \E t \in UI : ConnectHw(t)
    \/ \E t \in UI : StopMotion(t)
    \/ \E t \in UI : StopJoin(t)
    \/ \E t \in UI : StopLock3(t)
    \/ \E t \in UI : StopHw(t)
    \/ \E t \in UI : Disconnect(t)
    \/ \E t \in UI : DiscLock(t)
    \/ \E t \in UI : DiscHw(t)
    \/ \E t \in UI : TtLock1(t)
    \/ \E t \in UI : TtCheck(t)
    \/ \E t \in UI : TtStop(t)
    \/ \E t \in UI : TtLock2(t)
    \/ \E t \in UI : TtHw(t)
    \/ \E t \in UI : PlayLock(t)
    \/ \E t \in UI : PlayHw(t)
    \/ \E k \in Threads : LoopStart(k)
    \/ \E k \in Threads : LoopPoll(k)
    \/ \E k \in Threads : LoopMove(k)
    \/ \E t \in UI : Return(t)

\* XArmGradioController
GNext ==
    \/ \E ip \in GAddresses : GConnect(ip)
    \/ GDisconnect
    \/ GStopPlayback
    \/ GJoin
    \/ \E enable \in BOOLEAN : GToggleTeach(enable)
    \/ \E ui_speed \in UiSpeeds : GStartPlayback(ui_speed)
    \/ \E k \in PlayThreads : GLoopStart(k)
    \/ \E k \in PlayThreads : GLoopPoll(k)
    \/ \E k \in PlayThreads : GLoopPass(k)
    \/ \E k \in PlayThreads : GLoopBackoff(k)
    \/ \E k \in PlayThreads : GLoopExit(k)
    \/ GReturn

\* XArmGradioController teaching and recording: the commands of a session
\* without playback, the joint reports of the SDK and the passing of time
TNext ==
    \/ GConnect(DefaultIp)
    \/ GDisconnect
    \/ \E enable \in BOOLEAN : GToggleTeach(enable)
    \/ \E q \in Reports : OnReport(q)
    \/ Tick
    \/ GReturn

Spec == Init /\ [][Next]_vars
SpecRace == InitRace /\ [][Next]_vars
\* XArmController with one caller and a robot that answers the limit queries
InitLimits == CtlInit /\ env = EnvLimits /\ p2p = NoP2p /\ GInit
SpecLimits == InitLimits /\ [][Next]_vars
SpecG == Init /\ [][GNext]_vars
SpecT == Init /\ [][TNext]_vars

\* XArmGradioController teaching and recording with commands that run while
\* the report callback is between its idle test and its stop+save
RNext ==
    \/ GConnect(DefaultIp)
    \/ GDisconnect
    \/ \E enable \in BOOLEAN : GToggleTeach(enable)
    \/ \E q \in Reports : OnReport(q)
    \/ \E q \in Reports : OnReportCheck(q)
    \/ OnReportStop
    \/ Tick
    \/ GReturn
SpecR == Init /\ [][RNext]_vars

\* XArmGradioController with playback and the joint reports together: one
\* session, Teach entered, start and stop of playback, and reports with and
\* without motion
PNext ==
    \/ GConnect(DefaultIp)
    \/ GToggleTeach(TRUE)
    \/ GStartPlayback(15)
    \/ GStopPlayback
    \/ GJoin
    \/ \E k \in PlayThreads : GLoopStart(k)
    \/ \E k \in PlayThreads : GLoopPoll(k)
    \/ \E k \in PlayThreads : GLoopPass(k)
    \/ \E k \in PlayThreads : GLoopBackoff(k)
    \/ \E k \in PlayThreads : GLoopExit(k)
    \/ \E q \in {qA, qB} : OnReport(q)
    \/ GReturn
SpecP == Init /\ [][PNext]_vars

\* the endpoint computation of play_point_to_point and _p2p_loop on every
\* request
InitP2p == CtlInit /\ env = EnvSeq /\ p2p \in P2pRequests /\ GInit
P2pNext == P2pPlay \/ P2pLoop
SpecP2p == InitP2p /\ [][P2pNext]_vars

(***************************************************************************)
(* Properties                                                              *)
(***************************************************************************)
\* a caller's call of method op returns in this step
Returns(t, op) == ui[t].pc # "done" /\ ui'[t].pc = "done" /\ ui'[t].op = op
\* a caller's call of method op starts in this step
Calls(t, op) == ui[t].pc = "idle" /\ ui'[t].pc # "idle" /\ ui'[t].op = op

\* C1: in XArmController at most one bounce-loop thread is alive in every
\* reachable state, also after a stop whose join(timeout=2.0) has expired
\* while the loop is inside set_position.
C1_AtMostOneBounceLoop == Cardinality(Alive) <= 1

\* C2: in XArmGradioController at most one playback-loop thread is alive in
\* every reachable state, also after a stop whose join(timeout=1.0) has
\* expired while the loop is inside playback_trajectory.
C2_AtMostOnePlaybackLoop == Cardinality(GAlive) <= 1

\* C3: play_point_to_point called while state.playing is true returns
\* "Already playing", starts no thread, changes neither the robot nor any
\* session field nor the stop event, and exactly one motion task is alive.
C3_AlreadyPlaying ==
    [][\A t \in UI : (Calls(t, "play") \/ Returns(t, "play")) /\ ui[t].pc = "idle"
                     /\ state.playing
          => /\ ui'[t].ret = "Already playing"
             /\ UNCHANGED <<arm, state, stop_event, motion_thread, thr, hw>>
             /\ Cardinality(Alive) = 1]_vars

StopStatuses == {"Not connected", "Stopped", "Stopped, return pose error", "Stop error"}

\* C4: whenever stop_motion returns, it returns a status string and
\* state.playing is false, whatever the return move did and whether or not
\* the loop exited within the join.
C4_StopLeavesNotPlaying ==
    [][\A t \in UI : Returns(t, "stop")
          => ui'[t].ret \in StopStatuses /\ ~state'.playing]_vars

\* C5: whenever disconnect returns, state.connected is false, also when
\* arm.disconnect() raised (XArmController).
C5_DisconnectClearsConnected ==
    [][\A t \in UI : Returns(t, "disconnect") => ~state'.connected]_vars

\* C5, XArmGradioController: whenever disconnect returns, state.connected is
\* false and the handle is dropped.
C5_GradioDisconnectClears ==
    (g_cmd.pc = "done" /\ g_cmd.op = "disconnect") => ~g_state.connected /\ g_arm = None

\* C6: once arm.disconnect() has released the link, no bounce-loop thread is
\* alive (so none can be inside or issue a move on that link).
C6_ReleasedLinkHasNoLoop == hw.link = "released" => Alive = {}

\* C7: XArmController.connect called while connected returns "Already
\* connected" and changes neither the robot nor any session field, the stored
\* ip included, for any address.
C7_ConnectNoOp ==
    [][\A t \in UI : Returns(t, "connect") /\ ui[t].pc = "idle" /\ state.connected
          => /\ ui'[t].ret = "Already connected"
             /\ UNCHANGED <<arm, state, stop_event, motion_thread, thr, hw>>]_vars

\* C7, XArmGradioController: connect with a handle present returns "already
\* connected" and changes nothing.
C7_GradioConnectNoOp ==
    [][g_cmd.pc = "idle" /\ g_cmd'.op = "connect" /\ g_arm # None
          => /\ g_cmd'.ret = "already connected"
             /\ UNCHANGED <<g_arm, g_state, g_play_thread, g_stop_play_evt,
                            g_cb_registered, g_thr, g_hw>>]_vars

\* C8: in XArmController teach_enabled and playing are never both true.
C8_TeachExcludesPlaying == ~(state.teach_enabled /\ state.playing)

\* C9: XArmGradioController.toggle_teach(True) enters Teach (returns
\* "waiting" with teach_mode true) only when no playback-loop thread is alive.
C9_TeachOnlyWithoutPlayback ==
    [][g_cmd.pc = "idle" /\ g_cmd'.op = "toggle" /\ g_cmd'.ret = "waiting"
          => GAlive = {}]_vars

\* C10: in a connected XArmController session teach_enabled is true only if
\* the last set_mode the robot accepted was mode 2, and false only if it was
\* mode 0.
C10_ModeConfirmed ==
    state.connected => /\ state.teach_enabled => hw.mode = 2
                       /\ ~state.teach_enabled => hw.mode = 0

\* set_mode or set_state returned a non-zero code
CodeFailed(o1, o2) == o1 = "fail" \/ (o1 = "ok" /\ o2 = "fail")

\* C11: when set_mode or set_state returns a non-zero code during
\* XArmController.toggle_teach, the call returns a failure status,
\* state.teach_enabled keeps the value it had before the call, and after a
\* failed enable set_mode(0)/set_state(0) is issued again (so the robot is in
\* mode 0 when that set_mode is accepted).
C11_ToggleFailureKeepsTeach ==
    \A t \in UI : ui[t].pc = "tt_hw" /\ arm # None =>
        \A o1 \in Outcome, o2 \in Outcome, o3 \in Outcome, o4 \in Outcome :
            CodeFailed(o1, o2) =>
                LET b == ToggleBody(o1, o2, o3, o4) IN
                /\ b.status = IF state.teach_enabled THEN "Teach disable failed"
                                                     ELSE "Teach enable failed"
                /\ b.teach = state.teach_enabled
                /\ (~state.teach_enabled /\ o3 = "ok") => b.hw.mode = 0

\* a failed enable has returned after set_mode(2) had been accepted: the
\* fallback has put the robot back in mode 0 and Teach is still off
C11_Witness ==
    \E t \in UI : /\ ui[t].pc = "done" /\ ui[t].ret = "Teach enable failed"
                   /\ ~state.teach_enabled /\ hw.mode = 0 /\ state.connected

\* C12: in XArmGradioController connect and toggle_teach return a success
\* status (and set connected / flip teach_mode) only when the robot accepted
\* the mode they asked for: a non-zero code of set_mode yields a failure
\* status and leaves teach_mode unchanged.
C12_GradioSuccessMeansAccepted ==
    [][g_cmd.pc = "idle" /\ g_cmd'.pc = "done"
          => /\ (g_cmd'.op = "connect" /\ g_cmd'.ret = "connected")
                    => g_hw'.mode = 0
             /\ (g_cmd'.op = "toggle" /\ g_state'.teach_mode # g_state.teach_mode)
                    => g_hw'.mode = IF g_state'.teach_mode THEN 2 ELSE 0]_vars

\* C13: in XArmGradioController state.recording is true only while
\* state.teach_mode is true, in every reachable state, also after a stop+save
\* that fails at the idle timeout and the automatic exit from Teach.
C13_RecordingOnlyInTeach == g_state.recording => g_state.teach_mode

\* a step of _on_report that kept a joint vector
ReportStep == g_cmd' = g_cmd /\ g_since' <= g_since /\ g_last_q' # NoQ

\* C14: in Teach with no recording in progress, a joint report starts a
\* recording if and only if, against the previous report, dist >=
\* motion_threshold or max_abs >= 0.6 * motion_threshold (a start that the
\* robot refuses with an exception aside).
C14_RecordingStartsIffMoved ==
    [][ReportStep /\ g_state.teach_mode /\ ~g_state.recording
          /\ g_state'.last_status # "record:start failed"
          => (g_state'.recording
                <=> /\ g_last_q # NoQ
                    /\ \/ Dq2(g_last_q', g_last_q) >= motion_threshold * motion_threshold
                       \/ 10 * MaxAbs(g_last_q', g_last_q) >= 6 * motion_threshold)]_vars

\* C15: for one recording at most one stop_record_trajectory(filename =
\* traj_filename) call is made: after the stop+save of the idle timeout no
\* later report issues a second one for the same recording.
C15_OneSavePerRecording == g_hw.saves <= 1

\* speed selectors in tenths, from -1.0 to 8.0
Selectors == -10 .. 80

\* C16: _snap_double_speed maps every speed selector to 4 when speed >= 3.0,
\* to 2 when 1.5 <= speed < 3.0 and to 1 otherwise (0.5 -> 1, 1.5 -> 2,
\* 2.0 -> 2, 3.0 -> 4, 5.0 -> 4); start_playback keeps the selector clamped to
\* [0, 5] and the playback loop it starts uses the multiplier of that value.
C16_SnapDoubleSpeed ==
    [][/\ g_state'.playback_speed \in 0 .. 50
       /\ \A k \in PlayThreads :
            g_thr[k].st = "start" /\ g_thr'[k].st = "poll"
               => /\ g_thr'[k].double_speed =
                        IF g_state.playback_speed >= 30 THEN 4
                        ELSE IF g_state.playback_speed >= 15 THEN 2 ELSE 1
                  /\ \A s \in Selectors :
                        /\ SnapDoubleSpeed(s) \in {1, 2, 4}
                        /\ s >= 30 => SnapDoubleSpeed(s) = 4
                        /\ (15 <= s /\ s < 30) => SnapDoubleSpeed(s) = 2
                        /\ s < 15 => SnapDoubleSpeed(s) = 1
                  /\ <<SnapDoubleSpeed(5), SnapDoubleSpeed(15), SnapDoubleSpeed(20),
                       SnapDoubleSpeed(30), SnapDoubleSpeed(50)>> = <<1, 2, 2, 4, 4>>]_vars

\* a loop started with the selector at exactly 1.5 plays at double speed 2
C16_Witness ==
    \E k \in PlayThreads : /\ g_thr[k].st = "pass" /\ g_thr[k].double_speed = 2
                           /\ g_state.playback_speed = 15

\* C17: for every requested amplitude and axis the two bounce endpoints are
\* center - half*direction and center + half*direction with half =
\* clamp(amplitude_cm * 10, 0, 200) / 2 and direction the tool axis in the
\* base frame, roll, pitch and yaw copied from the centre: their midpoint is
\* the centre, and their distance is the clamped amplitude (200 mm for a
\* request of 50 cm).
C17_BounceEndpoints ==
    p2p.stage = "loop" =>
        LET c == p2p.center
            lo == p2p.p_low
            hi == p2p.p_high
            half == (IF p2p.amplitude < 0 THEN 0
                     ELSE IF p2p.amplitude > 200 THEN 200 ELSE p2p.amplitude) * 5
            dir == [i \in 1 .. 3 |-> RpyToRot(c[4], c[5], c[6])[i][ToolAxisCol(p2p.axis)]]
            d2 == (hi[1] - lo[1]) * (hi[1] - lo[1]) + (hi[2] - lo[2]) * (hi[2] - lo[2])
                  + (hi[3] - lo[3]) * (hi[3] - lo[3])
        IN /\ \A i \in 1 .. 3 : /\ lo[i] = c[i] - half * dir[i]
                                /\ hi[i] = c[i] + half * dir[i]
                                /\ lo[i] + hi[i] = 2 * c[i]
           /\ \A i \in 4 .. 6 : lo[i] = c[i] /\ hi[i] = c[i]
           /\ d2 = (2 * half) * (2 * half)
           /\ p2p.amplitude = 500 => d2 = 2000 * 2000

\* the endpoints of a 50 cm request along a tool axis that points along -y
C17_Witness ==
    /\ p2p.stage = "loop" /\ p2p.amplitude = 500 /\ p2p.axis = "x"
    /\ p2p.center = <<3000, -1500, 2500, 0, 0, -90>>
    /\ p2p.p_low = <<3000, -500, 2500, 0, 0, -90>>
    /\ p2p.p_high = <<3000, -2500, 2500, 0, 0, -90>>

\* C18: a failed move inside the bounce loop (set_position returns a non-zero
\* code or raises) ends the loop at once: the loop issues no further
\* set_position and does not retry.
C18_FailedMoveEndsLoop ==
    \A k \in Threads : thr[k] = "move" =>
        \A o \in {"fail", "raise"} : LoopMoveBody(o) = "none"

\* C19: if the pose captured by play_point_to_point has fewer than six
\* components, no bounce-loop thread is started, state.playing is not left
\* true and the caller does not get the "motion started" status.
C19_ShortPoseAborts ==
    [][\A t \in UI : ui[t].pc = "play_hw" /\ Returns(t, "play")
                     /\ state'.init_pose # None /\ ~Len6(state'.init_pose)
          => /\ ui'[t].ret # "Point-to-point motion started"
             /\ ~state'.playing
             /\ thr' = thr]_vars

C21_LoopExitRestoresPosition ==
    [][\A k \in PlayThreads : g_thr[k].st = "exit" /\ g_thr'[k].st = "none"
          => g_hw'.mode = 0]_vars

\* Either controller: XArmController with two concurrent callers, or
\* XArmGradioController (the process runs one of the two applications)
InitBoth == CtlInit /\ env \in {EnvRace, EnvGradio} /\ p2p = NoP2p /\ GInit
GradioRuns == env.callers = {}
BothNext ==
    \/ Next
    \/ \E ip \in GAddresses : GradioRuns /\ GConnect(ip)
    \/ GradioRuns /\ GDisconnect
    \/ GradioRuns /\ GStopPlayback
    \/ GradioRuns /\ GJoin
    \/ \E enable \in BOOLEAN : GradioRuns /\ GToggleTeach(enable)
    \/ \E ui_speed \in UiSpeeds : GradioRuns /\ GStartPlayback(ui_speed)
    \/ \E k \in PlayThreads : GradioRuns /\ GLoopStart(k)
    \/ \E k \in PlayThreads : GradioRuns /\ GLoopPoll(k)
    \/ \E k \in PlayThreads : GradioRuns /\ GLoopPass(k)
    \/ \E k \in PlayThreads : GradioRuns /\ GLoopBackoff(k)
    \/ \E k \in PlayThreads : GradioRuns /\ GLoopExit(k)
    \/ GradioRuns /\ GReturn
SpecBoth == InitBoth /\ [][BothNext]_vars

\* Either controller with every command of its UI: XArmController with one
\* caller, or XArmGradioController with its sensitivity setters
InitCmd == CtlInit /\ env \in {EnvSeq, EnvGradio} /\ p2p = NoP2p /\ GInit
CmdNext ==
    \/ Next
    \/ GradioRuns /\ GConnect(DefaultIp)
    \/ GradioRuns /\ GDisconnect
    \/ GradioRuns /\ GStopPlayback
    \/ GradioRuns /\ GJoin
    \/ \E enable \in BOOLEAN : GradioRuns /\ GToggleTeach(enable)
    \/ GradioRuns /\ GStartPlayback(15)
    \/ \E level \in Levels : GradioRuns /\ GSetCollisionSensitivity(level)
    \/ \E level \in Levels : GradioRuns /\ GSetTeachSensitivity(level)
    \/ \E k \in PlayThreads : GradioRuns /\ GLoopStart(k)
    \/ \E k \in PlayThreads : GradioRuns /\ GLoopPoll(k)
    \/ \E k \in PlayThreads : GradioRuns /\ GLoopPass(k)
    \/ \E k \in PlayThreads : GradioRuns /\ GLoopBackoff(k)
    \/ \E k \in PlayThreads : GradioRuns /\ GLoopExit(k)
    \/ GradioRuns /\ GReturn
SpecCmd == InitCmd /\ [][CmdNext]_vars

\* the next step of a command of XArmController that is under way can be taken
CanStep(t) ==
    ENABLED (\/ ConnectHw(t) \/ StopJoin(t) \/ StopLock3(t) \/ StopHw(t)
             \/ DiscLock(t) \/ DiscHw(t) \/ TtCheck(t) \/ TtStop(t) \/ TtLock2(t)
             \/ TtHw(t) \/ PlayHw(t))
\* the next step of a bounce loop or of a playback loop can be taken
LoopCanStep(k) == ENABLED (LoopStart(k) \/ LoopPoll(k) \/ LoopMove(k))
GLoopCanStep(k) ==
    ENABLED (GLoopStart(k) \/ GLoopPoll(k) \/ GLoopPass(k) \/ GLoopBackoff(k) \/ GLoopExit(k))

\* C22: no reachable state is a deadlock on the state lock. A command under
\* way can take its next step, or it waits for the lock and the holder of the
\* lock can take its next step (which releases it), or it waits in its join
\* for a loop thread that can take its next step without the lock; in
\* XArmGradioController the join, made under the lock, can return or the
\* playback loop it waits for can take its next step.
C22_NoDeadlockOnLock ==
    /\ \A t \in UI : ui[t].pc \notin {"idle", "done"} =>
          \/ CanStep(t)
          \/ lock \notin {None, t} /\ CanStep(lock)
          \/ ui[t].pc = "stop_join" /\ IsAlive(ui[t].thread) /\ LoopCanStep(ui[t].thread)
    /\ g_cmd.pc = "join" =>
          \/ ENABLED GJoin
          \/ GIsAlive(g_play_thread) /\ GLoopCanStep(g_play_thread)

\* a stop waits for the lock, which another command holds inside its hardware
\* calls, while a bounce loop is inside set_position
C22_Witness ==
    \E t \in UI : /\ ui[t].pc = "stop_lock3" /\ ui[t].op = "stop"
                  /\ lock \notin {None, t}
                  /\ \E k \in Threads : thr[k] = "move"

\* the places where a command of XArmController is inside its hardware calls
\* (link open or release, mode and state changes, pose read, return move)
HwPcs == {"connect_hw", "play_hw", "stop_hw", "disc_hw", "tt_hw"}

\* C23: a caller that is inside a hardware call of connect,
\* play_point_to_point, stop_motion, disconnect or toggle_teach does not hold
\* _lock.
C23_NoLockAcrossHardware == \A t \in UI : ui[t].pc \in HwPcs => lock # t

\* XArmGradioController: a command is inside its "with self._lock" block from
\* its first statement until it returns
GLockHeld == g_cmd.pc \notin {"idle", "done"}

\* C24: the wait for the background task is made without the lock: a caller
\* inside the join of stop_motion does not hold _lock, and the command inside
\* the join of _stop_playback_thread (stop_playback, disconnect of
\* XArmGradioController) does not hold the lock either.
C24_JoinOutsideLock ==
    /\ \A t \in UI : ui[t].pc = "stop_join" => lock # t
    /\ g_cmd.pc = "join" => ~GLockHeld

\* C25: the commands of XArmController do not interleave. While a stop_motion
\* that has set the stop event (its first state change) has not yet made its
\* mode restore and return move (its last hardware calls), no step of another
\* caller's command changes the handle, the session state, the stop event,
\* the thread handle or the robot.
C25_CommandsSerialized ==
    [][\A t \in UI : /\ ui[t].pc \in {"stop_join", "stop_lock3"}
                     /\ ui[t].thread # 0
                     /\ ui'[t] = ui[t]
                     /\ ui' # ui
          => UNCHANGED <<arm, state, stop_event, motion_thread, hw>>]_vars

\* A loop thread that is alive but is no longer the one the controller's
\* handle names has had its stop requested: the handle is replaced only by a
\* play accepted after stop_motion set playing to false and the stop event
\* for that thread (lines 431-436, 406), and dropped or replaced only after
\* _stop_playback_thread set the event for it (lines 467-470, 309-311).
StopRequested(k) == IsAlive(k) /\ k # motion_thread
GStopRequested(k) == GIsAlive(k) /\ k # g_play_thread

\* C26: a loop whose stop has been requested leaves at its next poll point:
\* its poll does not lead to a new set_position (bounce loop) or a new
\* playback pass (playback loop), whatever commands came after the stop.
C26_StoppedLoopLeavesAtPoll ==
    [][/\ \A k \in Threads : StopRequested(k) /\ thr[k] = "poll" => thr'[k] # "move"
       /\ \A k \in PlayThreads : GStopRequested(k) /\ g_thr[k].st = "poll"
                                    => g_thr'[k].st # "pass"]_vars

\* C27: state.init_pose is not given another value while a bounce-loop thread
\* is alive (the thread of the play that captured the pose it replaces).
C27_CenterPoseKeptWhileLoopAlive ==
    [][state'.init_pose # state.init_pose => Alive = {}]_vars

\* C28: toggle_teach(False) called while state.recording is true stops the
\* recording without a save and clears recording and _record_started whatever
\* stop_record_trajectory(filename=None) did, and issues set_mode(0) and
\* set_state(0) afterwards: also after a failed stop the robot is in mode 0
\* when set_mode is accepted, and when the mode change raises the recording
\* has already been dropped. No stop+save under traj_filename is issued.
C28_ExplicitExitDiscards ==
    (g_cmd.pc = "idle" /\ g_arm # None /\ g_state.recording) =>
        \A o1 \in Outcome, o2 \in Outcome, oR \in {"ok", "raise"}, oS \in Outcome :
            LET b == GToggleBody(FALSE, o1, o2, oR, oS) IN
            /\ ~b.state.recording
            /\ ~b.rs
            /\ b.hw.saves = g_hw.saves
            /\ oS = "ok" => ~b.hw.rec
            /\ o1 = "ok" => b.hw.mode = 0
            /\ (o1 # "raise" /\ o2 # "raise") => ~b.state.teach_mode /\ b.status = "idle"

\* toggle_teach(False) has returned "idle" right after a motion tick: the
\* robot still records (the stop without a file did not succeed), nothing
\* was saved, and the session shows neither a recording nor Teach
C28_Witness ==
    /\ g_cmd = GRet("toggle", "idle")
    /\ g_hw.rec /\ g_hw.saves = 0 /\ g_since = 0 /\ g_hw.mode = 0
    /\ ~g_state.recording /\ ~g_record_started /\ ~g_state.teach_mode

\* C29: state.recording and _record_started change only in a step of a
\* command, which runs under the lock, and at most one
\* stop_record_trajectory call is issued for a recording by the idle path of
\* _on_report, toggle_teach(False) and disconnect together.
C29_RecordingUnderLock ==
    [][/\ (g_state'.recording # g_state.recording
           \/ g_record_started' # g_record_started) => g_cmd' # g_cmd
       /\ g_hw'.stops <= 1]_vars

\* C30: when a motion tick in Teach tries to start a recording and
\* start_record_trajectory returns a non-zero code or raises, state.recording
\* is not set, last_status is "record:start failed", and _record_started
\* stays false so that the next motion tick tries again.
C30_FailedStartRolledBack ==
    (g_hw.link = "open" /\ g_hw.cb /\ g_rep = "idle" /\ g_arm # None
     /\ g_state.teach_mode /\ ~g_record_started /\ ~g_state.recording) =>
        \A q \in Reports : (q # <<>> /\ g_last_q # NoQ /\ Moved(q, g_last_q)) =>
            \A oStart \in {"fail", "raise"} :
                LET b == OnReportBody(q, oStart, "ok", "ok", "ok", "ok") IN
                /\ ~b.state.recording
                /\ b.state.last_status = "record:start failed"
                /\ ~b.rs

\* C31: a connect that succeeds while the max-velocity query is absent, fails,
\* raises or gives no value leaves max_tcp_lin_vel_mmps at its default 200,
\* and likewise max_tcp_lin_acc_mmps2 at 1000 for the acceleration query
\* (which is also not made when the velocity query raised), also on a
\* reconnect after a session that had cached other values.
C31_CachesDefaultWithoutReply ==
    \A t \in UI : ui[t].pc = "connect_hw" =>
        \A rv \in env.vel_replies, ra \in env.acc_replies :
            LET lim == ConnectLimits(rv, ra) IN
            /\ rv.kind # "value" => lim.vel = ArmState.max_tcp_lin_vel_mmps
            /\ (ra.kind # "value" \/ rv.kind = "raise")
                  => lim.acc = ArmState.max_tcp_lin_acc_mmps2

\* lines 448-455: phase 3 of stop_motion calls set_position(..., wait=True)
\* towards state.init_pose (a pose of fewer than six components raises at
\* the unpacking, before the call)
StopIssuesMove == arm # None /\ state.init_pose # None /\ Len6(state.init_pose)

\* C32: a stop_motion that found state.playing false in its phase 1 (called
\* by the UI, by disconnect or by toggle_teach) issues no set_position in its
\* phase 3.
C32_IdleStopMovesNothing ==
    \A t \in UI : ui[t].pc = "stop_hw" /\ ui[t].thread = 0 => ~StopIssuesMove

\* C33: in XArmController, whenever state.playing is true a bounce-loop thread
\* is alive (so "Already playing" is returned only while a task runs).
C33_PlayingMeansLoopAlive == state.playing => Alive # {}

\* C34: while a playback-loop thread is alive, no step of the report callback
\* starts a recording (state.recording and _record_started do not become
\* true).
C34_NoRecordingDuringPlayback ==
    [][(~g_state.recording /\ g_state'.recording)
       \/ (~g_record_started /\ g_record_started') => GAlive = {}]_vars

\* C35: in XArmController, whenever no command is under way, state.connected
\* is true exactly when the handle _arm is not None.
C35_ConnectedIffHandle ==
    (\A t \in UI : ui[t].pc \in {"idle", "done"}) => (state.connected <=> arm # None)

PlayFailures == {"Play error", "Failed to read TCP pose", "Failed to enter position mode"}

\* C36: a play_point_to_point that returns a failure status starts no thread,
\* leaves state.playing false and leaves state.init_pose as it was.
C36_FailedPlayChangesNothing ==
    \A t \in UI : ui[t].pc = "play_hw" =>
        \A og \in Outcome, p \in env.poses, o1 \in Outcome, o2 \in Outcome, speed \in Speeds :
            LET b == PlayBody(og, p, o1, o2, speed) IN
            b.status \in PlayFailures =>
                /\ ~b.start
                /\ ~b.state.playing
                /\ b.state.init_pose = state.init_pose

\* lines 373-384: what _on_report takes as motion for a report q when the
\* kept report is b (no motion without a kept report)
MovedAgainst(q, b) == b # NoQ /\ Moved(q, b)

\* C37: when Teach is entered, the first report that follows is not judged
\* against a report kept from before: whatever joint vector it carries, it
\* counts as no motion (and so starts no recording).
C37_FirstReportIsBaseline ==
    [][(~g_state.teach_mode /\ g_state'.teach_mode /\ ~g_record_started')
          => \A q \in Reports : q # <<>> => ~MovedAgainst(q, g_last_q')]_vars

\* C38: a command other than connect that is called without a session
\* returns its "not connected" status and changes nothing: no field of the
\* session, no handle, no thread, no event and nothing on the robot.
\* XArmController: toggle_teach, play_point_to_point, stop_motion;
\* XArmGradioController: toggle_teach, start_playback and the two
\* sensitivity setters.
C38_NoSessionNoEffect ==
    [][/\ \A t \in UI :
            (/\ ui[t].pc = "idle" /\ ui'[t].pc # "idle"
             /\ ui'[t].op \in {"toggle", "play", "stop"}
             /\ (~state.connected \/ arm = None))
            => /\ ui'[t] = Ret(ui'[t].op, "Not connected")
               /\ UNCHANGED <<arm, state, lock, stop_event, motion_thread, thr, hw>>
       /\ (/\ g_cmd.pc = "idle" /\ g_cmd'.pc # "idle"
           /\ g_cmd'.op \in {"toggle", "start", "collision", "teach_sens"}
           /\ g_arm = None)
            => /\ g_cmd' = GRet(g_cmd'.op, "not connected")
               /\ UNCHANGED <<g_arm, g_state, g_play_thread, g_stop_play_evt,
                              g_cb_registered, g_thr, g_hw, rvars>>]_vars

\* after a session has been closed (the link is released), start_playback
\* has been answered "not connected"
C38_Witness ==
    /\ g_cmd = GRet("start", "not connected")
    /\ g_hw.link = "released" /\ g_arm = None /\ GAlive = {}

\* C39: whenever no command and no report callback is executing, the
\* internal flag _record_started equals state.recording.
C39_RecordStartedMatchesRecording ==
    (g_cmd.pc \in {"idle", "done"} /\ g_rep = "idle")
        => (g_record_started = g_state.recording)

====
